---- MODULE Spec2Model ----
(***************************************************************************)
(* State-machine model of the gas simulation widget                        *)
(* (src/simulation/widget.py, SimulationWidget) together with the particle *)
(* record (src/models/particle.py) and the graph window's record cache     *)
(* (src/graphs/graph_window.py).                                           *)
(*                                                                         *)
(* Number representation.  The program computes with floats; the model     *)
(* computes with integers in fixed point:                                  *)
(*   - lengths (x, y, width, height, radius) in tenths of a pixel;         *)
(*   - speeds in tenths of a pixel per tick;                               *)
(*   - headings in units of pi/4, so pi = 4, pi/2 = 2, 2*pi = 8;           *)
(*   - cos and sin scaled by 10 (Cos8, Sin8), sqrt(2)/2 taken as 7/10;     *)
(*   - simulation time in units of 0.1 s.                                  *)
(* sqrt is the integer square root and atan2 is rounded to the nearest     *)
(* multiple of pi/4.                                                       *)
(*                                                                         *)
(* The configurations are scaled down: the box is 3 x 4 px and the volume  *)
(* step is 1 px per tick, so that the box closes within MaxTicks ticks.    *)
(* In the ranges the schemas allow (width >= 100 px, rates <= 1 px) the    *)
(* same states need a hundred ticks or more.                               *)
(*                                                                         *)
(* An exception that leaves update_simulation ends the process (PyQt5      *)
(* aborts on an unhandled exception in a slot; main.py installs no         *)
(* excepthook): error records it, and no handler runs afterwards.          *)
(***************************************************************************)
EXTENDS Integers, Sequences, FiniteSets, TLC

(***************************************************************************)
(* Bounds of the model.                                                    *)
(***************************************************************************)
\* update_simulation fires at most MaxTicks times between two resets.
MaxTicks == 4
\* At most MaxCmds user commands (buttons, settings dialog) in one run.
MaxCmds == 2
\* init_particles draws its random positions and headings from NumSeeds layouts.
NumSeeds == 2
\* The small particle count configured besides the count MinSamples.
SmallCount == 2
\* Angles are drawn from -2*MaxTurn*(pi/4) to 2*MaxTurn*(pi/4): MaxTurn = 4
\* spans -2*pi .. 2*pi.
MaxTurn == 4

(***************************************************************************)
(* Program constants.                                                      *)
(***************************************************************************)
\* "if len(velocities) < 10: return None" in the three entropy estimators.
MinSamples == 10
\* "len(velocities) >= 5" before stats.pearsonr in _update_ergodic_data.
MinCorr == 5

None == "None"

Modes == {"heat", "freeze", "expansion", "compression", "OFF"}
BlockedModes == {"heat", "freeze", "expansion", "compression"}

(***************************************************************************)
(* Arithmetic helpers.                                                     *)
(***************************************************************************)
Abs(n) == IF n < 0 THEN -n ELSE n

Min2(a, b) == IF a <= b THEN a ELSE b

\* Quotient rounded toward zero, as a float quotient is when it is truncated.
Div(a, b) == IF (a >= 0) = (b > 0) THEN Abs(a) \div Abs(b) ELSE -(Abs(a) \div Abs(b))

\* Newton's iteration for the integer square root, from the estimate x.
RECURSIVE SqrtFrom(_, _)
SqrtFrom(n, x) ==
  LET y == (x + n \div x) \div 2
  IN  IF y >= x THEN x ELSE SqrtFrom(n, y)

\* math.sqrt on integers: the integer square root.
Sqrt(n) == IF n = 0 THEN 0 ELSE SqrtFrom(n, n)

\* math.cos of a heading in units of pi/4, scaled by 10.
Cos8(k) ==
  LET m == k % 8 IN
  CASE m = 0 -> 10
    [] m = 1 -> 7
    [] m = 2 -> 0
    [] m = 3 -> -7
    [] m = 4 -> -10
    [] m = 5 -> -7
    [] m = 6 -> 0
    [] OTHER -> 7

\* math.sin of a heading in units of pi/4, scaled by 10.
Sin8(k) == Cos8(k - 2)

\* math.atan2(y, x) rounded to the nearest multiple of pi/4; the result lies
\* in -3..4 (atan2 yields -pi only for y = -0.0, which integers do not have).
Atan2(y, x) ==
  LET ax == Abs(x)
      ay == Abs(y)
  IN  IF x = 0 /\ y = 0 THEN 0
      ELSE IF 12 * ay <= 5 * ax THEN (IF x > 0 THEN 0 ELSE 4)
      ELSE IF 12 * ax <= 5 * ay THEN (IF y > 0 THEN 2 ELSE -2)
      ELSE IF x > 0 THEN (IF y > 0 THEN 1 ELSE -1)
      ELSE (IF y > 0 THEN 3 ELSE -3)

\* "while a > pi: a -= 2*pi; while a < -pi: a += 2*pi".
RECURSIVE NormalizeAngle(_)
NormalizeAngle(a) ==
  IF a > 4 THEN NormalizeAngle(a - 8)
  ELSE IF a < -4 THEN NormalizeAngle(a + 8)
  ELSE a

RECURSIVE SumSeq(_)
SumSeq(s) == IF s = <<>> THEN 0 ELSE Head(s) + SumSeq(Tail(s))

\* statistics.mean / np.mean of a non-empty list (0 for the empty list, as the
\* callers' "if velocities else 0" has it).
Mean(s) == IF s = <<>> THEN 0 ELSE Div(SumSeq(s), Len(s))

(***************************************************************************)
(* Configuration (src/schemas): the fields the simulation reads.           *)
(***************************************************************************)
BaseConfig ==
  [ count                   |-> SmallCount,  \* particles.count
    radius                  |-> 10,          \* particles.radius (1 px)
    mass                    |-> 1,           \* particles.mass
    initial_speed           |-> 10,          \* particles.initial_speed (1 px per tick)
    window_width            |-> 30,          \* simulation_window.width (3 px)
    window_height           |-> 40,          \* simulation_window.height (4 px)
    time_step               |-> 1,           \* time.time_step (0.1 s)
    check_interval          |-> 2,           \* time.check_interval (0.2 s)
    expansion_rate          |-> 10,          \* state_change.expansion_rate (1 px)
    compression_rate        |-> 10,          \* state_change.compression_rate (1 px)
    heat_rate               |-> 5,           \* state_change.heat_rate (0.5 px per tick)
    freeze_rate             |-> 5,           \* state_change.freeze_rate
    freeze_min_counter      |-> 1,           \* state_change.freeze_min_counter
    distance_multiplier     |-> 25,          \* collision.distance_multiplier, in tenths (2.5)
    overlap_threshold       |-> 1,           \* collision.overlap_threshold (0.1 px)
    prediction_step         |-> 1,           \* collision.prediction_step, in tenths (0.1)
    gravity_enabled         |-> FALSE,       \* gravity.enabled
    g                       |-> 10,          \* gravity.g (g * time_step = 1 px per tick)
    brownian_enabled        |-> FALSE,       \* brownian.enabled
    brownian_mode           |-> "single_large",
    large_mass_multiplier   |-> 10,          \* brownian.large_mass_multiplier
    large_radius_multiplier |-> 2,           \* brownian.large_radius_multiplier
    molecule_type           |-> "monatomic", \* molecule.molecule_type
    enable_rotation         |-> FALSE,       \* molecule.enable_rotation
    moment_of_inertia       |-> 1,           \* molecule.moment_of_inertia
    initial_angular_velocity |-> 1,          \* molecule.initial_angular_velocity (pi/4 per 0.1 s)
    isolated_system         |-> FALSE,       \* experiment.isolated_system
    corner_start            |-> FALSE ]      \* experiment.corner_start

\* The particle counts the settings dialog is given in the model.
Counts == {SmallCount, MinSamples}

\* The molecules configured: monatomic without rotation, diatomic with it.
Molecules == {"monatomic", "diatomic"}

\* The configurations the program is started with or that the settings
\* dialog applies: every count, isolated or not, either molecule.
Configs ==
  { [BaseConfig EXCEPT !.count = c, !.isolated_system = iso,
                       !.molecule_type = mol,
                       !.enable_rotation = (mol # "monatomic")] :
      c \in Counts, iso \in BOOLEAN, mol \in Molecules }

(***************************************************************************)
(* State.                                                                  *)
(***************************************************************************)
VARIABLES
  config,                       \* self.config
  width0, height0,              \* self.width0, self.height0
  width, height,                \* self.width, self.height
  nn, r1, m1, v_start,          \* particle parameters copied from the config
  particles,                    \* self.particles: sequence of GasParticle
  mode,                         \* self.mode
  running,                      \* self.running
  simulation_timer,             \* TRUE while self.simulation_timer is active
  NOW_TIME, time_sleep, time_check, timer, counter,
  delta_px_left, delta_px_right, delta_py_up, delta_py_down,
  Energy_check,
  Pressure, Temperature, Volume, Time_meas, AvgVelocity, KineticEnergy,
  Density, VelocityDistribution, MeanFreePath, CollisionRate,
  collision_count,
  initial_energy,
  Entropy, MSD, H_function, SpatialEntropy,
  brownian_initial_pos,
  particle_velocity_histories, time_averages_history,
  ensemble_averages_history, initial_velocities, initial_positions_saved,
  correlations_history,
  resolved_count,               \* velocity exchanges performed since the last reset
  field_acted,                  \* TRUE once a tick applied gravity since initial_energy was saved
  graph_window,                 \* TRUE while MainWindow.graph_window is open
  cached_data,                  \* GraphWindow.cached_data
  fn_call,                      \* the function SpecFn applied last: name, inputs, result
  error,                        \* the exception that ended the process, or None
  last,                         \* the handler that ran last, with its argument
  cmds                          \* user commands issued so far

configVars == <<config, width0, height0, nn, r1, m1, v_start, time_sleep, time_check>>

boxVars == <<width, height>>

clockVars == <<NOW_TIME, timer, counter>>

impulseVars == <<delta_px_left, delta_px_right, delta_py_up, delta_py_down>>

seriesVars ==
  <<Pressure, Temperature, Volume, Time_meas, AvgVelocity, KineticEnergy,
    Density, VelocityDistribution, MeanFreePath, CollisionRate>>

entropyVars == <<Entropy, H_function, SpatialEntropy>>

ergodicVars ==
  <<particle_velocity_histories, time_averages_history,
    ensemble_averages_history, correlations_history>>

\* What init_particles writes besides the particle list.
seedVars_rest ==
  <<initial_energy, brownian_initial_pos, initial_velocities,
    initial_positions_saved>>

seedVars == <<particles, seedVars_rest>>

\* Everything a tick or a reset may write.
simVars ==
  <<boxVars, clockVars, impulseVars, seriesVars, entropyVars, ergodicVars,
    seedVars, Energy_check, MSD, collision_count, resolved_count>>

graphVars == <<graph_window, cached_data>>

\* The state of the program and of its handlers' bookkeeping.
programVars ==
  <<configVars, simVars, mode, running, simulation_timer, graphVars,
    field_acted, error, last, cmds>>

vars == <<programVars, fn_call>>

(***************************************************************************)
(* Particles (src/models/particle.py) and init_particles.                  *)
(***************************************************************************)
\* The angular velocity GasParticle.__init__ gives a molecule: 0 unless it
\* rotates; else initial_angular_velocity with the sign random.choice draws,
\* or, when that is 0, a draw of random.gauss(0, sigma) (one sigma, signed).
InitialOmega(speed, cfg, sign) ==
  IF cfg.enable_rotation /\ cfg.molecule_type # "monatomic"
  THEN IF cfg.initial_angular_velocity > 0
       THEN cfg.initial_angular_velocity * sign
       ELSE sign * (IF cfg.moment_of_inertia > 0
                    THEN Div(speed, Sqrt(cfg.moment_of_inertia)) ELSE speed)
  ELSE 0

\* GasParticle.__init__: the translational and rotational fields; a and theta
\* are the draws of random.uniform(0, 2*pi), each one of the eight multiples
\* of pi/4 in [0, 2*pi), and sign is the draw of random.choice([-1, 1]).
GasParticle(x, y, radius, mass, speed, cfg, a, theta, sign) ==
  [ x |-> x, y |-> y, radius |-> radius, mass |-> mass, v |-> speed, a |-> a,
    theta            |-> theta,
    omega            |-> InitialOmega(speed, cfg, sign),
    molecule_type    |-> cfg.molecule_type,
    rotation_enabled |-> cfg.enable_rotation ]

\* GasParticle.update_rotation(dt): theta += omega*dt and the wrap, for a
\* molecule that rotates; nothing otherwise.
update_rotation(p, dt) ==
  IF p.rotation_enabled /\ p.molecule_type # "monatomic"
  THEN [p EXCEPT !.theta = NormalizeAngle(p.theta + p.omega * dt)]
  ELSE p

\* Kinetic energy m*v^2/2 of one particle, in units of one half, so that the
\* value is the integer m*v^2.
KineticEnergyOf(p) == p.mass * p.v * p.v

RECURSIVE TotalEnergy(_)
TotalEnergy(ps) ==
  IF ps = <<>> THEN 0 ELSE KineticEnergyOf(Head(ps)) + TotalEnergy(Tail(ps))

\* random.uniform(lo, hi): the k-th point of the interval on a grid of half a
\* pixel (uniform accepts lo > hi and then yields a point of [hi, lo]).
Uniform(lo, hi, k) ==
  IF hi >= lo THEN lo + 5 * (k % ((hi - lo) \div 5 + 1))
  ELSE lo - 5 * (k % ((lo - hi) \div 5 + 1))

\* The random draws of layout s for the particle of index i (0-based).
DrawX(s, i) == 2 * s + 3 * i + (i * i) \div 2

DrawY(s, i) == s + 2 * i + (i \div 3)

DrawA(s, i) == 3 * s + 5 * i + (i \div 2)

DrawTheta(s, i) == 5 * s + 3 * i + 1

DrawSign(s, i) == IF (s + i) % 2 = 0 THEN 1 ELSE -1

\* The particle init_particles creates at index i (0-based) from layout s.
SeededParticle(cfg, w, h, r, m, vs, s, i) ==
  LET max_corner == Div(3 * Min2(w, h), 10)
      x == IF cfg.corner_start THEN Uniform(r, max_corner - r, DrawX(s, i))
           ELSE Uniform(r, w - r, DrawX(s, i))
      y == IF cfg.corner_start THEN Uniform(r, max_corner - r, DrawY(s, i))
           ELSE Uniform(r, h - r, DrawY(s, i))
      p == GasParticle(x, y, r, m, vs, cfg, DrawA(s, i) % 8,
                       DrawTheta(s, i) % 8, DrawSign(s, i))
  IN  IF i = 0 /\ cfg.brownian_enabled /\ cfg.brownian_mode = "single_large"
      THEN [p EXCEPT !.radius = r * cfg.large_radius_multiplier,
                     !.mass = m * cfg.large_mass_multiplier,
                     !.v = Div(vs, 2)]
      ELSE p

\* Mutation of SeededParticles: the loop stops one particle short.
SeededParticles_Short(cfg, w, h, n, r, m, vs, s) ==
  [k \in 1..(n - 1) |-> SeededParticle(cfg, w, h, r, m, vs, s, k - 1)]

\* init_particles: the particle list created from layout s,
\* "for i in range(self.nn)".
SeededParticles(cfg, w, h, n, r, m, vs, s) ==
  [k \in 1..n |-> SeededParticle(cfg, w, h, r, m, vs, s, k - 1)]

Velocities(ps) == [k \in 1..Len(ps) |-> ps[k].v]

Positions(ps) == [k \in 1..Len(ps) |-> <<ps[k].x, ps[k].y>>]

Seeds == 0..(NumSeeds - 1)

(***************************************************************************)
(* The record of data_updated and the graph window's cache.                *)
(***************************************************************************)
\* No function has been applied on its own.
NoCall == [op |-> "none"]

\* "self.cached_data = {}": no record received yet.
NoRecord == [received |-> FALSE]

\* The list objects the widget currently holds and hands out in data_dict
\* (the keys of data_dict the model keeps), with their contents.
Lists ==
  [ time            |-> Time_meas,
    pressure        |-> Pressure,
    temperature     |-> Temperature,
    volume          |-> Volume,
    avg_velocity    |-> AvgVelocity,
    kinetic_energy  |-> KineticEnergy,
    density         |-> Density,
    mean_free_path  |-> MeanFreePath,
    collision_rate  |-> CollisionRate,
    entropy         |-> Entropy,
    msd             |-> MSD,
    h_function      |-> H_function,
    spatial_entropy |-> SpatialEntropy ]

\* data_dict as update_simulation builds it.  Its list entries are the
\* widget's own list objects, not copies: live says that they still are the
\* lists the widget appends to, and lists holds their contents from the
\* moment the widget dropped them.  The other entries are values.
DataDict(m, collisions, velocities, positions, w, h, n) ==
  [ received         |-> TRUE,
    live             |-> TRUE,
    lists            |-> <<>>,
    mode             |-> m,
    collision_count  |-> collisions,
    velocities       |-> velocities,
    positions        |-> positions,
    container_width  |-> w,
    container_height |-> h,
    n_particles      |-> n ]

\* The cached record once reset_simulation has bound fresh lists to the
\* widget's fields: the record keeps the old list objects as they were.
Detached(data, lists) ==
  IF data.received /\ data.live
  THEN [data EXCEPT !.live = FALSE, !.lists = lists]
  ELSE data

\* What a reader of the record finds under its list keys.
ListsRead(data, lists) ==
  IF ~data.received THEN <<>>
  ELSE IF data.live THEN lists
  ELSE data.lists

(***************************************************************************)
(* Init: the state after SimulationWidget.__init__.                        *)
(***************************************************************************)
Init ==
  \E cfg \in Configs, s \in Seeds :
    LET ps == SeededParticles(cfg, cfg.window_width, cfg.window_height,
                              cfg.count, cfg.radius, cfg.mass,
                              cfg.initial_speed, s)
    IN  /\ config = cfg
        /\ width0 = cfg.window_width
        /\ height0 = cfg.window_height
        /\ width = cfg.window_width
        /\ height = cfg.window_height
        /\ nn = cfg.count
        /\ r1 = cfg.radius
        /\ m1 = cfg.mass
        /\ v_start = cfg.initial_speed
        /\ particles = ps
        /\ mode = "OFF"
        /\ running = TRUE
        /\ simulation_timer = TRUE
        /\ NOW_TIME = 0
        /\ time_sleep = cfg.time_step
        /\ time_check = cfg.check_interval
        /\ timer = 0
        /\ counter = 0
        /\ delta_px_left = 0
        /\ delta_px_right = 0
        /\ delta_py_up = 0
        /\ delta_py_down = 0
        /\ Energy_check = 0
        /\ Pressure = <<>>
        /\ Temperature = <<>>
        /\ Volume = <<>>
        /\ Time_meas = <<>>
        /\ AvgVelocity = <<>>
        /\ KineticEnergy = <<>>
        /\ Density = <<>>
        /\ VelocityDistribution = <<>>
        /\ MeanFreePath = <<>>
        /\ CollisionRate = <<>>
        /\ collision_count = 0
        /\ initial_energy = TotalEnergy(ps)
        /\ field_acted = FALSE
        /\ Entropy = <<>>
        /\ MSD = <<>>
        /\ H_function = <<>>
        /\ SpatialEntropy = <<>>
        /\ brownian_initial_pos = <<ps[1].x, ps[1].y>>
        /\ particle_velocity_histories = [k \in 1..Len(ps) |-> <<>>]
        /\ time_averages_history = <<>>
        /\ ensemble_averages_history = <<>>
        /\ initial_velocities = Velocities(ps)
        /\ initial_positions_saved = Positions(ps)
        /\ correlations_history = <<>>
        /\ resolved_count = 0
        /\ graph_window = FALSE
        /\ cached_data = NoRecord
        /\ fn_call = NoCall
        /\ error = None
        /\ last = [op |-> "init", arg |-> None, due |-> FALSE, row |-> FALSE]
        /\ cmds = 0

(***************************************************************************)
(* update_simulation: motion, walls, collisions, mode step.                *)
(***************************************************************************)
\* math.sqrt(vx**2 + vy**2) of components scaled by 10, rounded to the
\* nearest tenth of a pixel per tick.
Speed(vx, vy) == Div(Sqrt(vx * vx + vy * vy) + 5, 10)

\* The gravity step of one particle: vy += g * dt, then v and a recomposed.
GravityStep(p, cfg, dt) ==
  IF cfg.gravity_enabled
  THEN LET vy == p.v * Sin8(p.a) + 10 * cfg.g * dt
           vx == p.v * Cos8(p.a)
       IN  [p EXCEPT !.v = Speed(vx, vy), !.a = Atan2(vy, vx)]
  ELSE p

\* The position update of one particle: x += v*cos(a), y += v*sin(a).
MoveParticle(p, cfg, dt) ==
  LET q == GravityStep(p, cfg, dt)
  IN  [q EXCEPT !.x = q.x + Div(q.v * Cos8(q.a), 10),
                !.y = q.y + Div(q.v * Sin8(q.a), 10)]

MoveAll(ps, cfg, dt) == [k \in 1..Len(ps) |-> MoveParticle(ps[k], cfg, dt)]

\* The mean-squared-displacement sample of the first particle.
MsdOf(ps, pos0) ==
  (ps[1].x - pos0[1]) * (ps[1].x - pos0[1])
  + (ps[1].y - pos0[2]) * (ps[1].y - pos0[2])

\* The wall checks of one particle, in the order left, right, up, down, each
\* reading the heading the previous one left; then the normalisation.  The
\* impulses are 2*m*v*|cos a| and 2*m*v*|sin a| scaled by 10.
WallParticle_Unturned(p, w, h) ==
  [ p     |-> p,
    left  |-> IF p.x <= p.radius /\ (p.a > 2 \/ p.a < -2)
              THEN Abs(2 * p.mass * p.v * Cos8(p.a)) ELSE 0,
    right |-> 0, up |-> 0, down |-> 0 ]

WallParticle(p, w, h) ==
  LET hitL == p.x <= p.radius /\ (p.a > 2 \/ p.a < -2)
      aL   == IF hitL THEN 4 - p.a ELSE p.a
      hitR == p.x >= w - p.radius /\ (-2 < aL /\ aL < 2)
      aR   == IF hitR THEN 4 - aL ELSE aL
      hitU == p.y <= p.radius /\ (-4 < aR /\ aR < 0)
      aU   == IF hitU THEN -aR ELSE aR
      hitD == p.y >= h - p.radius /\ (0 < aU /\ aU < 4)
      aD   == IF hitD THEN -aU ELSE aU
  IN  [ p     |-> [p EXCEPT !.a = NormalizeAngle(aD)],
        left  |-> IF hitL THEN Abs(2 * p.mass * p.v * Cos8(aL)) ELSE 0,
        right |-> IF hitR THEN Abs(2 * p.mass * p.v * Cos8(aR)) ELSE 0,
        up    |-> IF hitU THEN Abs(2 * p.mass * p.v * Sin8(aU)) ELSE 0,
        down  |-> IF hitD THEN Abs(2 * p.mass * p.v * Sin8(aD)) ELSE 0 ]

RECURSIVE WallSum(_, _, _, _)
WallSum(ps, w, h, side) ==
  IF ps = <<>> THEN 0
  ELSE WallParticle(Head(ps), w, h)[side] + WallSum(Tail(ps), w, h, side)

\* The wall loop over all particles: the particles after it and the impulse
\* each wall received.
WallAll(ps, w, h) ==
  [ ps    |-> [k \in 1..Len(ps) |-> WallParticle(ps[k], w, h).p],
    left  |-> WallSum(ps, w, h, "left"),
    right |-> WallSum(ps, w, h, "right"),
    up    |-> WallSum(ps, w, h, "up"),
    down  |-> WallSum(ps, w, h, "down") ]

\* Squared distance of the centres.
Dist2(p1, p2) ==
  (p1.x - p2.x) * (p1.x - p2.x) + (p1.y - p2.y) * (p1.y - p2.y)

\* The bounding check: |dx| and |dy| at most distance_multiplier * p1.radius.
BroadPhase(p1, p2, cfg) ==
  /\ 10 * Abs(p1.x - p2.x) <= cfg.distance_multiplier * p1.radius
  /\ 10 * Abs(p1.y - p2.y) <= cfg.distance_multiplier * p1.radius

\* "dist <= p1.radius * 2 + overlap_threshold".
Touching(p1, p2, cfg) ==
  Dist2(p1, p2) <=
    (p1.radius * 2 + cfg.overlap_threshold) * (p1.radius * 2 + cfg.overlap_threshold)

\* The pair counts as a collision of this frame.
InContact(p1, p2, cfg) == BroadPhase(p1, p2, cfg) /\ Touching(p1, p2, cfg)

\* Mutation of Approaching: the prediction is not consulted.
Approaching_Always(p1, p2, cfg) == TRUE

\* "dist > dist_new": the separation predicted after prediction_step is
\* smaller than the current one (both squared, lengths scaled by 100).
Approaching(p1, p2, cfg) ==
  LET dx  == 100 * (p1.x - p2.x)
      dy  == 100 * (p1.y - p2.y)
      dxn == dx + (p1.v * Cos8(p1.a) - p2.v * Cos8(p2.a)) * cfg.prediction_step
      dyn == dy + (p1.v * Sin8(p1.a) - p2.v * Sin8(p2.a)) * cfg.prediction_step
  IN  dx * dx + dy * dy > dxn * dxn + dyn * dyn

\* Mutation of Exchange: each particle keeps its own normal velocity.
Exchange_Unswapped(p1, p2) ==
  LET collision_angle == Atan2(p2.y - p1.y, p2.x - p1.x)
      n1 == p1.v * Cos8(p1.a - collision_angle)
      n2 == p2.v * Cos8(p2.a - collision_angle)
  IN  [ collision_angle      |-> collision_angle,
        normal_velocity1     |-> n1,
        normal_velocity2     |-> n2,
        tangential_velocity1 |-> p1.v * Sin8(p1.a - collision_angle),
        tangential_velocity2 |-> p2.v * Sin8(p2.a - collision_angle),
        normal_velocity1_new |-> n1,
        normal_velocity2_new |-> n2 ]

\* The velocities of a pair in the frame of the collision (normal along the
\* line of centres) and the normal components assigned by the exchange, all
\* scaled by 10.
Exchange(p1, p2) ==
  LET collision_angle == Atan2(p2.y - p1.y, p2.x - p1.x)
      velocity_angle1 == p1.a - collision_angle
      velocity_angle2 == p2.a - collision_angle
  IN  [ collision_angle      |-> collision_angle,
        normal_velocity1     |-> p1.v * Cos8(velocity_angle1),
        normal_velocity2     |-> p2.v * Cos8(velocity_angle2),
        tangential_velocity1 |-> p1.v * Sin8(velocity_angle1),
        tangential_velocity2 |-> p2.v * Sin8(velocity_angle2),
        normal_velocity1_new |->
          Div(2 * p1.mass * p2.v * Cos8(velocity_angle2), 2 * p1.mass),
        normal_velocity2_new |->
          Div(2 * p1.mass * p1.v * Cos8(velocity_angle1), 2 * p1.mass) ]

\* The velocity exchange of a pair: <<p1 after, p2 after>>.
Resolve(p1, p2) ==
  LET e == Exchange(p1, p2)
      new_angle1 == Atan2(e.tangential_velocity1, e.normal_velocity1_new)
      new_angle2 == Atan2(e.tangential_velocity2, e.normal_velocity2_new)
  IN  << [p1 EXCEPT !.v = Speed(e.normal_velocity1_new, e.tangential_velocity1),
                    !.a = NormalizeAngle(e.collision_angle + new_angle1)],
         [p2 EXCEPT !.v = Speed(e.normal_velocity2_new, e.tangential_velocity2),
                    !.a = NormalizeAngle(e.collision_angle + new_angle2)] >>

\* The pair loop "for i ... for j in range(i + 1, ...)" from the pair (i, j)
\* on; acc carries the particles, collisions_this_frame and the number of
\* velocity exchanges.
RECURSIVE CollideFrom(_, _, _, _)
CollideFrom(acc, i, j, cfg) ==
  IF i > Len(acc.ps) THEN acc
  ELSE IF j > Len(acc.ps) THEN CollideFrom(acc, i + 1, i + 2, cfg)
  ELSE
    LET p1 == acc.ps[i]
        p2 == acc.ps[j]
    IN  IF ~InContact(p1, p2, cfg) THEN CollideFrom(acc, i, j + 1, cfg)
        ELSE IF ~Approaching(p1, p2, cfg)
        THEN CollideFrom([acc EXCEPT !.contacts = @ + 1], i, j + 1, cfg)
        ELSE LET r == Resolve(p1, p2)
             IN  CollideFrom([ ps       |-> [acc.ps EXCEPT ![i] = r[1], ![j] = r[2]],
                               contacts |-> acc.contacts + 1,
                               resolved |-> acc.resolved + 1 ],
                             i, j + 1, cfg)

CollideAll(ps, cfg) ==
  CollideFrom([ps |-> ps, contacts |-> 0, resolved |-> 0], 1, 2, cfg)

\* Mutation of WidthStep: every mode but OFF compresses.
WidthStep_AnyMode(w, m, cfg) ==
  IF cfg.isolated_system \/ m = "OFF" THEN w ELSE w - cfg.compression_rate

\* The volume step: width after the tick.
WidthStep(w, m, cfg) ==
  IF cfg.isolated_system THEN w
  ELSE IF m = "expansion" THEN w + cfg.expansion_rate
  ELSE IF m = "compression" THEN w - cfg.compression_rate
  ELSE w

\* Mutation of FreezeParticle: the speed is lowered without the test.
FreezeParticle_Unguarded(p, cfg) == [p EXCEPT !.v = p.v - cfg.freeze_rate]

\* The freeze step of one particle: slowed only while the result stays > 0.
FreezeParticle(p, cfg) ==
  IF p.v - cfg.freeze_rate > 0 THEN [p EXCEPT !.v = p.v - cfg.freeze_rate] ELSE p

\* The temperature step: the particles after the tick (cnt is self.counter
\* before its increment).
HeatStep(ps, m, cnt, cfg) ==
  IF cfg.isolated_system THEN ps
  ELSE IF m = "heat"
  THEN [k \in 1..Len(ps) |-> [ps[k] EXCEPT !.v = ps[k].v + cfg.heat_rate]]
  ELSE IF m = "freeze" /\ cnt >= cfg.freeze_min_counter
  THEN [k \in 1..Len(ps) |-> FreezeParticle(ps[k], cfg)]
  ELSE ps

(***************************************************************************)
(* update_simulation: the aggregation row.                                 *)
(***************************************************************************)
\* The denominators of avg_pressure; a zero one raises ZeroDivisionError.
PressureDivides(tc, w, h) == tc * h # 0 /\ tc * w # 0

\* avg_pressure, scaled by 1000; defined when PressureDivides.
AvgPressure(left, right, up, down, tc, w, h) ==
  Div(Div(1000 * (left + right), tc * h) + Div(1000 * (up + down), tc * w), 4)

\* volume = width*height - nn*pi*r1^2, pi taken as 22/7.
VolumeOf(n, w, h, r) == w * h - Div(22 * n * r * r, 7)

\* density = nn / (width*height), scaled by 10^6, guarded as in the source.
DensityOf(n, w, h) == IF w * h > 0 THEN Div(1000000 * n, w * h) ELSE 0

\* calculate_mean_free_path: 0, +inf or the quotient num/den of
\* 1 / (sqrt(2) * density * cross_section), sqrt(2)*pi taken as 40/9.
calculate_mean_free_path(n, w, h, r) ==
  IF n = 0 \/ w * h = 0 THEN [inf |-> FALSE, num |-> 0, den |-> 1]
  ELSE IF n * (2 * r) * (2 * r) = 0 THEN [inf |-> TRUE, num |-> 0, den |-> 1]
  ELSE [inf |-> FALSE, num |-> 9 * w * h,
        den |-> 40 * n * (2 * r) * (2 * r)]

\* calculate_collision_rate: avg_velocity / mean_free_path scaled by 10,
\* or 0 when the mean free path is 0 or +inf.
calculate_collision_rate(ps, n, w, h, r) ==
  LET avg_velocity == Mean(Velocities(ps))
      mean_free_path == calculate_mean_free_path(n, w, h, r)
  IN  IF mean_free_path.num = 0 \/ mean_free_path.inf THEN 0
      ELSE Div(10 * avg_velocity * mean_free_path.den, mean_free_path.num)

NoData == [none |-> TRUE, val |-> 0]

Value(n) == [none |-> FALSE, val |-> n]

\* The number of distinct samples of a list.  The estimators sum p*ln(p)
\* over the occupied bins of a histogram; the model keeps this count in
\* place of the sum.
Occupied(samples) == Cardinality({samples[k] : k \in 1..Len(samples)})

\* _calculate_velocity_entropy: None below 10 samples.
calculate_velocity_entropy(velocities) ==
  IF Len(velocities) < MinSamples THEN NoData ELSE Value(Occupied(velocities))

\* _calculate_h_function: None below 10 samples.
calculate_h_function(velocities) ==
  IF Len(velocities) < MinSamples THEN NoData ELSE Value(-Occupied(velocities))

\* np.histogram2d(..., range=[[0, width], [0, height]]) raises ValueError
\* when an upper edge lies below 0; it is reached with 10 positions or more.
SpatialRaises(positions, w, h) ==
  Len(positions) >= MinSamples /\ (w < 0 \/ h < 0)

InsideBox(pos, w, h) == 0 <= pos[1] /\ pos[1] <= w /\ 0 <= pos[2] /\ pos[2] <= h

\* _calculate_spatial_entropy: None below 10 positions and when no position
\* lies in the box; defined when ~SpatialRaises.
calculate_spatial_entropy(positions, w, h) ==
  LET inside == {k \in 1..Len(positions) : InsideBox(positions[k], w, h)}
  IN  IF Len(positions) < MinSamples THEN NoData
      ELSE IF inside = {} THEN NoData
      ELSE Value(Cardinality({positions[k] : k \in inside}))

\* Mutation of AppendValue: the result is appended without the test.
AppendValue_Untested(series, r) == Append(series, r.val)

\* "if x is not None: series.append(x)".
AppendValue(series, r) == IF r.none THEN series ELSE Append(series, r.val)

\* stats.pearsonr(initial, current): the model keeps the covariance sum
\* n*sum(x*y) - sum(x)*sum(y) in place of the coefficient.
Pearson(xs, ys) ==
  Len(xs) * SumSeq([k \in 1..Len(xs) |-> xs[k] * ys[k]]) - SumSeq(xs) * SumSeq(ys)

\* The entry _update_ergodic_data appends to correlations_history.
CorrelationEntry(initial, velocities) ==
  IF Len(initial) = Len(velocities) /\ Len(velocities) >= MinCorr
  THEN Value(Pearson(initial, velocities))
  ELSE NoData

(***************************************************************************)
(* update_simulation, the timer's handler.                                 *)
(***************************************************************************)
\* The handler that ran: its name and argument and, for a tick, whether the
\* row was due and whether it was produced (appended and emitted).
Did(op, arg, due, row) == [op |-> op, arg |-> arg, due |-> due, row |-> row]

\* What one run of update_simulation computes from the current state, up to
\* the point where it ends or raises: lines 219-368 (motion, MSD, walls,
\* collisions, mode step, energy) and the conditions of the row.
TickOutcome ==
  LET now        == NOW_TIME + time_sleep
      moved      == MoveAll(particles, config, time_sleep)
      walls      == WallAll(moved, width, height)
      coll       == CollideAll(walls.ps, config)
      w          == WidthStep(width, mode, config)
      ps         == HeatStep(coll.ps, mode, counter, config)
      due        == time_check <= -timer + now
      divides    == PressureDivides(time_check, w, height)
      raises     == SpatialRaises(Positions(ps), w, height)
  IN  [ now        |-> now,
        ps         |-> ps,
        msd        |-> MsdOf(moved, brownian_initial_pos),
        contacts   |-> coll.contacts,
        resolved   |-> coll.resolved,
        width      |-> w,
        energy     |-> TotalEnergy(ps),
        velocities |-> Velocities(ps),
        positions  |-> Positions(ps),
        left       |-> delta_px_left + walls.left,
        right      |-> delta_px_right + walls.right,
        up         |-> delta_py_up + walls.up,
        down       |-> delta_py_down + walls.down,
        \* the row is due; its ten series are appended; it runs to the end
        due        |-> due,
        appended   |-> due /\ divides,
        complete   |-> due /\ divides /\ ~raises,
        error      |-> IF due /\ ~divides THEN "ZeroDivisionError"
                       ELSE IF due /\ raises THEN "ValueError"
                       ELSE None ]

\* _update_ergodic_data: the per-particle velocity histories after the row.
ErgodicHistories(histories, velocities) ==
  [k \in DOMAIN histories |->
     IF k <= Len(velocities) THEN Append(histories[k], velocities[k])
     ELSE histories[k]]

\* Mutation of DensitySeries: the append sits under the density's guard.
DensitySeries_Guarded(series, n, w, h) ==
  IF w * h > 0 THEN Append(series, Div(1000000 * n, w * h)) ELSE series

\* "density = nn / (width*height) if ... > 0 else 0; Density.append(density)".
DensitySeries(series, n, w, h) == Append(series, DensityOf(n, w, h))

\* The ten series after the appends of a row (lines 394-403).
SeriesAfterRow(t) ==
  [ Pressure      |-> Append(Pressure,
                        AvgPressure(t.left, t.right, t.up, t.down,
                                    time_check, t.width, height)),
    Temperature   |-> Append(Temperature, Div(t.energy, 100)),
    Volume        |-> Append(Volume, Div(VolumeOf(nn, t.width, height, r1), 1000)),
    Time_meas     |-> Append(Time_meas, t.now),
    AvgVelocity   |-> Append(AvgVelocity, Mean(t.velocities)),
    KineticEnergy |-> Append(KineticEnergy, t.energy),
    Density       |-> DensitySeries(Density, nn, t.width, height),
    VelocityDistribution |-> VelocityDistribution \o t.velocities,
    MeanFreePath  |-> Append(MeanFreePath,
                        calculate_mean_free_path(nn, t.width, height, r1)),
    CollisionRate |-> Append(CollisionRate,
                        calculate_collision_rate(t.ps, nn, t.width, height, r1)) ]

AssignSeries(row) ==
  /\ Pressure' = row.Pressure
  /\ Temperature' = row.Temperature
  /\ Volume' = row.Volume
  /\ Time_meas' = row.Time_meas
  /\ AvgVelocity' = row.AvgVelocity
  /\ KineticEnergy' = row.KineticEnergy
  /\ Density' = row.Density
  /\ VelocityDistribution' = row.VelocityDistribution
  /\ MeanFreePath' = row.MeanFreePath
  /\ CollisionRate' = row.CollisionRate

\* The assignments of a running tick whose computation is t.
TickCommit(t) ==
  /\ NOW_TIME' = t.now
  /\ particles' = t.ps
  /\ MSD' = Append(MSD, t.msd)
  /\ collision_count' = collision_count + t.contacts
  /\ resolved_count' = resolved_count + t.resolved
  /\ width' = t.width
  /\ Energy_check' = t.energy
  /\ counter' = counter + 1
  /\ error' = t.error
  /\ last' = Did("update_simulation", None, t.due, t.complete)
  \* data_updated.emit(data_dict): GraphWindow.on_data_updated keeps the record
  /\ cached_data' =
       IF t.complete /\ graph_window
       THEN DataDict(mode, collision_count + t.contacts, t.velocities,
                     t.positions, t.width, height, nn)
       ELSE cached_data
  /\ graph_window' = graph_window
  \* the ten series are appended before the entropy estimators run
  /\ IF t.appended
     THEN /\ AssignSeries(SeriesAfterRow(t))
          /\ Entropy' = AppendValue(Entropy, calculate_velocity_entropy(t.velocities))
          /\ H_function' = AppendValue(H_function, calculate_h_function(t.velocities))
     ELSE UNCHANGED <<seriesVars, Entropy, H_function>>
  \* the rest of the row is reached only if histogram2d did not raise
  /\ IF t.complete
     THEN /\ SpatialEntropy' =
               AppendValue(SpatialEntropy,
                           calculate_spatial_entropy(t.positions, t.width, height))
          /\ particle_velocity_histories' =
               ErgodicHistories(particle_velocity_histories, t.velocities)
          /\ time_averages_history' =
               Append(time_averages_history,
                      Mean(Append(particle_velocity_histories[1], t.velocities[1])))
          /\ ensemble_averages_history' =
               Append(ensemble_averages_history, Mean(t.velocities))
          /\ correlations_history' =
               Append(correlations_history,
                      CorrelationEntry(initial_velocities, t.velocities))
          /\ delta_px_left' = 0
          /\ delta_px_right' = 0
          /\ delta_py_up' = 0
          /\ delta_py_down' = 0
          /\ timer' = t.now
     ELSE /\ UNCHANGED <<SpatialEntropy, ergodicVars, timer>>
          /\ delta_px_left' = t.left
          /\ delta_px_right' = t.right
          /\ delta_py_up' = t.up
          /\ delta_py_down' = t.down

\* Mutation of update_simulation: the tick runs whether or not self.running.
update_simulation_Unguarded ==
  /\ error = None
  /\ simulation_timer \/ ~running
  /\ counter < MaxTicks
  /\ UNCHANGED <<configVars, mode, running, cmds, height, seedVars_rest, fn_call>>
  /\ simulation_timer' = simulation_timer
  /\ field_acted' = (field_acted \/ config.gravity_enabled)
  /\ TickCommit(TickOutcome)

\* update_simulation is the slot of the timer's timeout: it runs while the
\* timer is active, and once more for a timeout that reaches the slot after
\* stop_simulation (the case its first test is written for).
update_simulation ==
  /\ error = None
  /\ simulation_timer \/ ~running
  /\ counter < MaxTicks
  /\ UNCHANGED <<configVars, mode, running, cmds, height, seedVars_rest, fn_call>>
  /\ IF ~running
     THEN /\ simulation_timer' = FALSE
          /\ last' = Did("update_simulation", None, FALSE, FALSE)
          /\ UNCHANGED <<field_acted, width, clockVars, impulseVars, seriesVars, entropyVars,
                         ergodicVars, particles, Energy_check, MSD,
                         collision_count, resolved_count, graphVars, error>>
     ELSE /\ simulation_timer' = simulation_timer
          /\ field_acted' = (field_acted \/ config.gravity_enabled)
          /\ TickCommit(TickOutcome)

(***************************************************************************)
(* The user's commands.                                                    *)
(***************************************************************************)
\* The handlers that save the initial energy anew: those running the body of
\* reset_simulation (through init_particles) and toggle_isolated_system(True).
SavesInitialEnergy(op, arg) ==
  \/ op \in {"reset_simulation", "toggle_brownian_mode", "toggle_corner_start",
             "apply_config"}
  \/ (op = "toggle_isolated_system" /\ arg)

\* A command is handled while the process lives; the model bounds their number.
Command(op, arg) ==
  /\ error = None
  /\ cmds < MaxCmds
  /\ cmds' = cmds + 1
  /\ error' = error
  /\ fn_call' = fn_call
  /\ field_acted' = (field_acted /\ ~SavesInitialEnergy(op, arg))
  /\ last' = Did(op, arg, FALSE, FALSE)

\* Mutation of SetModeResult: the isolation flag is not consulted.
SetModeResult_Unchecked(m, cfg, requested) == requested

\* set_mode: refused for the four process modes while the system is isolated.
SetModeResult(m, cfg, requested) ==
  IF cfg.isolated_system /\ requested \in BlockedModes THEN m ELSE requested

set_mode(requested) ==
  /\ Command("set_mode", requested)
  /\ mode' = SetModeResult(mode, config, requested)
  /\ UNCHANGED <<configVars, simVars, running, simulation_timer, graphVars>>

\* Mutation of toggle_isolated_system: the mode is left as it was.
toggle_isolated_system_KeepsMode(enabled) ==
  /\ Command("toggle_isolated_system", enabled)
  /\ config' = [config EXCEPT !.isolated_system = enabled]
  /\ mode' = mode
  /\ initial_energy' = IF enabled THEN TotalEnergy(particles) ELSE initial_energy
  /\ UNCHANGED <<width0, height0, nn, r1, m1, v_start, time_sleep, time_check,
                 boxVars, clockVars, impulseVars, seriesVars, entropyVars,
                 ergodicVars, particles, brownian_initial_pos,
                 initial_velocities, initial_positions_saved, Energy_check,
                 MSD, collision_count, resolved_count, running,
                 simulation_timer, graphVars>>

\* toggle_isolated_system (MainWindow.toggle_isolated_system calls it and
\* writes the same flag of the shared config object once more).
toggle_isolated_system(enabled) ==
  /\ Command("toggle_isolated_system", enabled)
  /\ config' = [config EXCEPT !.isolated_system = enabled]
  /\ mode' = IF enabled THEN "OFF" ELSE mode
  /\ initial_energy' = IF enabled THEN TotalEnergy(particles) ELSE initial_energy
  /\ UNCHANGED <<width0, height0, nn, r1, m1, v_start, time_sleep, time_check,
                 boxVars, clockVars, impulseVars, seriesVars, entropyVars,
                 ergodicVars, particles, brownian_initial_pos,
                 initial_velocities, initial_positions_saved, Energy_check,
                 MSD, collision_count, resolved_count, running,
                 simulation_timer, graphVars>>

toggle_gravity(enabled) ==
  /\ Command("toggle_gravity", enabled)
  /\ config' = [config EXCEPT !.gravity_enabled = enabled]
  /\ UNCHANGED <<width0, height0, nn, r1, m1, v_start, time_sleep, time_check,
                 simVars, mode, running, simulation_timer, graphVars>>

stop_simulation ==
  /\ Command("stop_simulation", None)
  /\ running' = FALSE
  /\ simulation_timer' = FALSE
  /\ UNCHANGED <<configVars, simVars, mode, graphVars>>

start_simulation ==
  /\ Command("start_simulation", None)
  /\ running' = TRUE
  /\ simulation_timer' = TRUE
  /\ UNCHANGED <<configVars, simVars, mode, graphVars>>

\* Mutation of ResetScalars: the aggregation timer is left as it was.
ResetScalars_StaleTimer(w0, h0) ==
  [ width           |-> w0,
    height          |-> h0,
    mode            |-> "OFF",
    NOW_TIME        |-> 0,
    counter         |-> 0,
    timer           |-> timer,
    delta_px_left   |-> 0,
    delta_px_right  |-> 0,
    delta_py_up     |-> 0,
    delta_py_down   |-> 0,
    collision_count |-> 0 ]

\* The scalar fields reset_simulation assigns (lines 629-638, 658).
ResetScalars(w0, h0) ==
  [ width           |-> w0,
    height          |-> h0,
    mode            |-> "OFF",
    NOW_TIME        |-> 0,
    counter         |-> 0,
    timer           |-> 0,
    delta_px_left   |-> 0,
    delta_px_right  |-> 0,
    delta_py_up     |-> 0,
    delta_py_down   |-> 0,
    collision_count |-> 0 ]

AssignScalars(f) ==
  /\ width' = f.width
  /\ height' = f.height
  /\ mode' = f.mode
  /\ NOW_TIME' = f.NOW_TIME
  /\ counter' = f.counter
  /\ timer' = f.timer
  /\ delta_px_left' = f.delta_px_left
  /\ delta_px_right' = f.delta_px_right
  /\ delta_py_up' = f.delta_py_up
  /\ delta_py_down' = f.delta_py_down
  /\ collision_count' = f.collision_count

\* Mutation of ResetBody: the running flag and the timer are left as they were.
ResetBody_KeepsStopped(cfg, w0, h0, n, r, m, vs, s) ==
  LET ps == SeededParticles(cfg, w0, h0, n, r, m, vs, s)
  IN  /\ AssignScalars(ResetScalars(w0, h0))
      /\ Pressure' = <<>>
      /\ Temperature' = <<>>
      /\ Volume' = <<>>
      /\ Time_meas' = <<>>
      /\ AvgVelocity' = <<>>
      /\ KineticEnergy' = <<>>
      /\ Density' = <<>>
      /\ VelocityDistribution' = <<>>
      /\ MeanFreePath' = <<>>
      /\ CollisionRate' = <<>>
      /\ Entropy' = <<>>
      /\ MSD' = <<>>
      /\ H_function' = <<>>
      /\ SpatialEntropy' = <<>>
      /\ resolved_count' = 0
      /\ time_averages_history' = <<>>
      /\ ensemble_averages_history' = <<>>
      /\ correlations_history' = <<>>
      /\ particles' = ps
      /\ brownian_initial_pos' = IF ps # <<>> THEN <<ps[1].x, ps[1].y>> ELSE None
      /\ initial_velocities' = Velocities(ps)
      /\ initial_positions_saved' = Positions(ps)
      /\ particle_velocity_histories' = [k \in 1..Len(ps) |-> <<>>]
      /\ initial_energy' = TotalEnergy(ps)
      /\ running' = running
      /\ simulation_timer' = simulation_timer
      /\ UNCHANGED Energy_check

\* The body of reset_simulation, init_particles included, run with the
\* configuration cfg and the fields w0, h0, n, r, m, vs in force; s is the
\* layout init_particles draws.
ResetBody(cfg, w0, h0, n, r, m, vs, s) ==
  LET ps == SeededParticles(cfg, w0, h0, n, r, m, vs, s)
  IN  /\ AssignScalars(ResetScalars(w0, h0))
      /\ Pressure' = <<>>
      /\ Temperature' = <<>>
      /\ Volume' = <<>>
      /\ Time_meas' = <<>>
      /\ AvgVelocity' = <<>>
      /\ KineticEnergy' = <<>>
      /\ Density' = <<>>
      /\ VelocityDistribution' = <<>>
      /\ MeanFreePath' = <<>>
      /\ CollisionRate' = <<>>
      /\ Entropy' = <<>>
      /\ MSD' = <<>>
      /\ H_function' = <<>>
      /\ SpatialEntropy' = <<>>
      /\ resolved_count' = 0
      /\ time_averages_history' = <<>>
      /\ ensemble_averages_history' = <<>>
      /\ correlations_history' = <<>>
      /\ particles' = ps
      /\ brownian_initial_pos' = IF ps # <<>> THEN <<ps[1].x, ps[1].y>> ELSE None
      /\ initial_velocities' = Velocities(ps)
      /\ initial_positions_saved' = Positions(ps)
      /\ particle_velocity_histories' = [k \in 1..Len(ps) |-> <<>>]
      /\ initial_energy' = TotalEnergy(ps)
      /\ running' = TRUE
      /\ simulation_timer' = TRUE
      /\ UNCHANGED Energy_check

\* The windows' reset buttons (MainWindow's btn_reset, GraphWindow.clear_graphs).
reset_simulation ==
  /\ Command("reset_simulation", None)
  /\ \E s \in Seeds : ResetBody(config, width0, height0, nn, r1, m1, v_start, s)
  /\ cached_data' = Detached(cached_data, Lists)
  /\ UNCHANGED <<configVars, graph_window>>

toggle_brownian_mode(enabled) ==
  /\ Command("toggle_brownian_mode", enabled)
  /\ config' = [config EXCEPT !.brownian_enabled = enabled]
  /\ \E s \in Seeds : ResetBody(config', width0, height0, nn, r1, m1, v_start, s)
  /\ cached_data' = Detached(cached_data, Lists)
  /\ UNCHANGED <<width0, height0, nn, r1, m1, v_start, time_sleep, time_check,
                 graph_window>>

toggle_corner_start(enabled) ==
  /\ Command("toggle_corner_start", enabled)
  /\ config' = [config EXCEPT !.corner_start = enabled]
  /\ \E s \in Seeds : ResetBody(config', width0, height0, nn, r1, m1, v_start, s)
  /\ cached_data' = Detached(cached_data, Lists)
  /\ UNCHANGED <<width0, height0, nn, r1, m1, v_start, time_sleep, time_check,
                 graph_window>>

\* MainWindow.show_graphs: a graph window open before is closed, a new one is
\* created and connected to data_updated; its cache starts empty.
show_graphs ==
  /\ Command("show_graphs", None)
  /\ graph_window' = TRUE
  /\ cached_data' = NoRecord
  /\ UNCHANGED <<configVars, simVars, mode, running, simulation_timer>>

\* apply_config: the new configuration's fields are copied, then the reset
\* (MainWindow._apply_new_config calls it and then closes the graph window).
apply_config(cfg) ==
  /\ Command("apply_config", <<nn, cfg.count>>)
  /\ config' = cfg
  /\ width0' = cfg.window_width
  /\ height0' = cfg.window_height
  /\ nn' = cfg.count
  /\ r1' = cfg.radius
  /\ m1' = cfg.mass
  /\ v_start' = cfg.initial_speed
  /\ time_sleep' = cfg.time_step
  /\ time_check' = cfg.check_interval
  /\ \E s \in Seeds :
       ResetBody(cfg, cfg.window_width, cfg.window_height, cfg.count,
                 cfg.radius, cfg.mass, cfg.initial_speed, s)
  /\ graph_window' = FALSE
  /\ cached_data' = NoRecord

(***************************************************************************)
(* The specification.                                                      *)
(***************************************************************************)
Next ==
  \/ update_simulation
  \/ \E requested \in Modes : set_mode(requested)
  \/ \E enabled \in BOOLEAN : toggle_isolated_system(enabled)
  \/ \E enabled \in BOOLEAN : toggle_gravity(enabled)
  \/ \E enabled \in BOOLEAN : toggle_brownian_mode(enabled)
  \/ \E enabled \in BOOLEAN : toggle_corner_start(enabled)
  \/ stop_simulation
  \/ start_simulation
  \/ reset_simulation
  \/ show_graphs
  \/ \E cfg \in Configs : apply_config(cfg)

Spec == Init /\ [][Next]_vars

(***************************************************************************)
(* The functions of the program applied on their own to drawn inputs.      *)
(***************************************************************************)
\* One application, from the state in which none has been made.
Called(op, in, out) ==
  /\ fn_call = NoCall
  /\ fn_call' = [op |-> op, in |-> in, out |-> out]
  /\ UNCHANGED programVars

\* The headings and orientations drawn: the multiples of pi/4 from -2*pi to
\* 2*pi (a field is in [0, 2*pi) after the constructor, in [-pi, pi] after a
\* normalisation).
Angles == (-2 * MaxTurn)..(2 * MaxTurn)

\* The angular velocities drawn, in pi/4 per 0.1 s.
Omegas == (-3 * MaxTurn)..(3 * MaxTurn)

\* A molecule with the rotational fields given, at rest in the box.
Molecule(theta, omega, mol, enabled) ==
  [ GasParticle(15, 15, 10, 1, 10, BaseConfig, 0, theta, 1)
      EXCEPT !.omega = omega, !.molecule_type = mol, !.rotation_enabled = enabled ]

call_update_rotation ==
  /\ fn_call = NoCall
  /\ \E theta \in Angles, omega \in Omegas, dt \in 1..2,
        mol \in Molecules, enabled \in BOOLEAN :
       Called("update_rotation",
              [p |-> Molecule(theta, omega, mol, enabled), dt |-> dt],
              update_rotation(Molecule(theta, omega, mol, enabled), dt))

\* The second particle's offsets from the first, in tenths of a pixel: the
\* eight neighbours at which two particles of radius 10 are in contact.
Offsets == {-14, 0, 14}

\* The speeds drawn: v_start and the heavy particle's v_start / 2.
Speeds == {Div(BaseConfig.initial_speed, 2), BaseConfig.initial_speed}

\* Two particles as init_particles creates them, the first heavy and large if
\* heavy (Brownian mode "single_large"), with the drawn speeds and headings.
Pair(heavy, dx, dy, v1, v2, a1, a2) ==
  LET cfg == BaseConfig
      p1 == GasParticle(50, 50, cfg.radius, cfg.mass, v1, cfg, a1, 0, 1)
      p2 == GasParticle(50 + dx, 50 + dy, cfg.radius, cfg.mass, v2, cfg, a2, 0, 1)
  IN  << IF heavy
         THEN [p1 EXCEPT !.radius = cfg.radius * cfg.large_radius_multiplier,
                         !.mass = cfg.mass * cfg.large_mass_multiplier]
         ELSE p1,
         p2 >>

\* The collision step of a tick on a pair: the particles after it, the number
\* of exchanges made, and the exchange's components.
Collision(ps) ==
  [ ps       |-> CollideAll(ps, BaseConfig).ps,
    resolved |-> CollideAll(ps, BaseConfig).resolved,
    frame    |-> Exchange(ps[1], ps[2]) ]

call_collision ==
  /\ fn_call = NoCall
  /\ \E heavy \in BOOLEAN, dx \in Offsets, dy \in Offsets, v1 \in Speeds, v2 \in Speeds,
        a1 \in 0..7, a2 \in 0..7 :
       /\ <<dx, dy>> # <<0, 0>>
       /\ Called("collision", Pair(heavy, dx, dy, v1, v2, a1, a2),
                 Collision(Pair(heavy, dx, dy, v1, v2, a1, a2)))

\* calculate_mean_free_path and calculate_collision_rate on a widget whose nn,
\* width, height and r1 are drawn with and without a zero among them; the
\* particle list is empty or holds nn particles of speed v_start.
call_mean_free_path ==
  /\ fn_call = NoCall
  /\ \E n \in 0..SmallCount, w \in {0, BaseConfig.window_width},
        h \in {0, BaseConfig.window_height}, r \in {0, BaseConfig.radius} :
       LET ps == [k \in 1..n |->
                    GasParticle(15, 15, r, 1, BaseConfig.initial_speed, BaseConfig, 0, 0, 1)]
       IN  Called("mean_free_path", [nn |-> n, width |-> w, height |-> h, r1 |-> r],
                  [ mean_free_path |-> calculate_mean_free_path(n, w, h, r),
                    collision_rate |-> calculate_collision_rate(ps, n, w, h, r) ])

\* The wall checks of a tick on one particle: at a wall, at two (a corner) or
\* at none, in the initial box and in one compressed to the particle's
\* diameter; the heading is one the constructor draws (0..7) or one a tick
\* leaves (-4..4).
call_wall ==
  /\ fn_call = NoCall
  /\ \E w \in {2 * BaseConfig.radius, BaseConfig.window_width},
        x \in {BaseConfig.radius, BaseConfig.window_width - BaseConfig.radius},
        y \in {BaseConfig.radius, 2 * BaseConfig.radius,
               BaseConfig.window_height - BaseConfig.radius},
        a \in -4..7, v \in Speeds,
        m \in {BaseConfig.mass, BaseConfig.mass * BaseConfig.large_mass_multiplier} :
       LET q == GasParticle(x, y, BaseConfig.radius, m, v, BaseConfig, a, 0, 1)
       IN  Called("wall", [p |-> q, width |-> w, height |-> BaseConfig.window_height],
                  WallParticle(q, w, BaseConfig.window_height))

\* The permitted collision settings drawn: distance_multiplier 1.0, 2.5 and
\* 5.0 (in tenths), overlap_threshold 0.1 and 1.0 px, radius 1 and 5 px.
Multipliers == {10, 25, 50}

Thresholds == {1, 10}

Radii == {10, 50}

\* The second particle's distance from the first along each axis.
Gaps == {0, 14, 20, 28, 30, 60, 100, 110}

\* The two contact tests of the pair loop on a pair of equal particles, or on
\* the enlarged first particle of Brownian mode "single_large" and another.
call_contact ==
  /\ fn_call = NoCall
  /\ \E mult \in Multipliers, thr \in Thresholds, r \in Radii, dx \in Gaps, dy \in Gaps,
        heavy \in BOOLEAN :
       LET cfg == [BaseConfig EXCEPT !.distance_multiplier = mult,
                                     !.overlap_threshold = thr]
           p1  == GasParticle(200, 200,
                              IF heavy THEN r * cfg.large_radius_multiplier ELSE r,
                              IF heavy THEN cfg.large_mass_multiplier ELSE 1,
                              10, cfg, 0, 0, 1)
           p2  == GasParticle(200 + dx, 200 + dy, r, 1, 10, cfg, 4, 0, 1)
       IN  Called("contact",
                  [pair |-> <<p1, p2>>, distance_multiplier |-> mult,
                   overlap_threshold |-> thr],
                  [ broad_phase |-> BroadPhase(p1, p2, cfg),
                    touching    |-> Touching(p1, p2, cfg),
                    in_contact  |-> InContact(p1, p2, cfg),
                    contacts    |-> CollideAll(<<p1, p2>>, cfg).contacts ])

InitFn == Init /\ config = BaseConfig

NextFn ==
  \/ call_update_rotation
  \/ call_collision
  \/ call_mean_free_path
  \/ call_wall
  \/ call_contact

SpecFn == InitFn /\ [][NextFn]_vars

(***************************************************************************)
(* Properties.                                                             *)
(***************************************************************************)
\* The step just taken was a call of the handler op.
Ran(op) == last'.op = op /\ (cmds' = cmds + 1 \/ op = "update_simulation")

\* The nine series of the measurement row.
RowSeries ==
  <<Time_meas, Pressure, Temperature, Volume, AvgVelocity, KineticEnergy,
    Density, MeanFreePath, CollisionRate>>

Impulses == <<delta_px_left, delta_px_right, delta_py_up, delta_py_down>>

\* The handlers that run the body of reset_simulation.
Resetters ==
  {"reset_simulation", "toggle_brownian_mode", "toggle_corner_start", "apply_config"}

\* C1: while the isolated_system flag is set, set_mode with heat, freeze,
\* expansion or compression changes neither the mode nor any other field of
\* the simulation; set_mode("OFF") sets the mode to OFF whenever it is called.
C1_IsolatedSetModeNoOp ==
  [][ Ran("set_mode") =>
        /\ (config.isolated_system /\ last'.arg \in BlockedModes) =>
             /\ mode' = mode
             /\ <<configVars, simVars, running, simulation_timer, graphVars, error>>'
                  = <<configVars, simVars, running, simulation_timer, graphVars, error>>
        /\ (last'.arg = "OFF") => mode' = "OFF" ]_vars

\* A refused set_mode has been made in an isolated system after some ticks.
C1_Witness ==
  /\ last.op = "set_mode"
  /\ last.arg \in BlockedModes
  /\ config.isolated_system
  /\ counter > 0

\* C2: update_simulation never ends in a fatal error: no tick of any mode,
\* consecutive compression ticks included, raises (no division by zero in
\* the pressure, density, mean-free-path or collision-rate computations).
C2_TickCompletes == error = None

\* C3: the particle list holds exactly nn particles, nn being the count of
\* the configuration in force, after every tick, reset and apply_config.
C3_ParticleCount == Len(particles) = nn /\ nn = config.count

\* apply_config has changed the particle count and re-seeded the list.
C3_Witness ==
  /\ last.op = "apply_config"
  /\ last.arg[1] # last.arg[2]
  /\ Len(particles) = last.arg[2]

\* C4: Time_meas, Pressure, Temperature, Volume, AvgVelocity, KineticEnergy,
\* Density, MeanFreePath and CollisionRate have the same length in every
\* reachable state.
C4_SeriesSameLength ==
  \A i \in 1..Len(RowSeries) : Len(RowSeries[i]) = Len(Time_meas)

\* A tick has just appended the second row of the series.
C4_Witness ==
  /\ last.op = "update_simulation"
  /\ last.row
  /\ Len(Time_meas) = 2

\* C5: Entropy, H_function and SpatialEntropy receive one value at every
\* aggregation tick, so each is as long as Time_meas in every reachable
\* state, whatever the particle count.
C5_EntropySeriesTrackTime ==
  /\ Len(Entropy) = Len(Time_meas)
  /\ Len(H_function) = Len(Time_meas)
  /\ Len(SpatialEntropy) = Len(Time_meas)

\* C6: the four wall-impulse counters are non-negative; a tick that is not
\* an aggregation tick does not lower them; after every aggregation tick all
\* four are zero; and no handler other than an aggregation tick or a reset
\* changes them.
C6_ImpulseCounters ==
  /\ [](\A i \in 1..4 : Impulses[i] >= 0)
  /\ []((last.op = "update_simulation" /\ last.due) =>
          \A i \in 1..4 : Impulses[i] = 0)
  /\ [][ /\ (Ran("update_simulation") /\ ~last'.due) =>
              \A i \in 1..4 : Impulses'[i] >= Impulses[i]
         /\ (last'.op \notin (Resetters \cup {"update_simulation"})) =>
              Impulses' = Impulses ]_vars

\* C7: a tick produces a row (appends to the series and emits the record)
\* exactly when the simulation time since the previous row, or since the
\* start or reset, has reached check_interval; and the tick that produces a
\* row restarts the accumulation at the current simulation time.
C7_RowIffIntervalElapsed ==
  [][ (Ran("update_simulation") /\ counter' = counter + 1) =>
        /\ last'.row <=> (NOW_TIME' - timer >= time_check)
        /\ last'.row <=> (Len(Time_meas') = Len(Time_meas) + 1)
        /\ last'.row => timer' = NOW_TIME' ]_vars

\* C8: right after reset_simulation has run, every history series is empty,
\* the clocks and counters are 0, width and height have their initial
\* values, the mode is OFF and the particles are a fresh layout.
C8_ResetClearsEverything ==
  (last.op \in Resetters) =>
    /\ \A i \in 1..Len(RowSeries) : RowSeries[i] = <<>>
    /\ VelocityDistribution = <<>>
    /\ Entropy = <<>> /\ H_function = <<>> /\ SpatialEntropy = <<>> /\ MSD = <<>>
    /\ time_averages_history = <<>>
    /\ ensemble_averages_history = <<>>
    /\ correlations_history = <<>>
    /\ \A k \in DOMAIN particle_velocity_histories :
         particle_velocity_histories[k] = <<>>
    /\ NOW_TIME = 0 /\ counter = 0 /\ timer = 0 /\ collision_count = 0
    /\ \A i \in 1..4 : Impulses[i] = 0
    /\ width = width0 /\ height = height0
    /\ mode = "OFF"
    /\ \E s \in Seeds :
         particles = SeededParticles(config, width0, height0, nn, r1, m1, v_start, s)
    /\ initial_velocities = Velocities(particles)
    /\ initial_positions_saved = Positions(particles)
    /\ initial_energy = TotalEnergy(particles)

\* reset_simulation has run on a state that held rows (the graph window's
\* record kept the lists it dropped).
C8_Witness ==
  /\ last.op = "reset_simulation"
  /\ cached_data.received
  /\ ~cached_data.live
  /\ Len(cached_data.lists.time) > 0
  /\ Len(cached_data.lists.msd) > 0

\* C9: the record a consumer has received is a snapshot: what the graph
\* window reads from its cached record is not changed by a later tick that
\* delivers no new record.
C9_RecordIsSnapshot ==
  [][ (Ran("update_simulation") /\ cached_data.received /\ cached_data' = cached_data) =>
        ListsRead(cached_data', Lists') = ListsRead(cached_data, Lists) ]_vars

\* C10: every particle's speed is >= 0 in every reachable state.
C10_SpeedNonNegative == \A k \in 1..Len(particles) : particles[k].v >= 0

\* A freeze tick has met a particle it could not slow further, particles
\* have exchanged velocities, and gravity is on.
C10_Witness ==
  /\ last.op = "update_simulation"
  /\ mode = "freeze"
  /\ counter > config.freeze_min_counter + 1
  /\ \E k \in 1..Len(particles) : particles[k].v - config.freeze_rate <= 0
  /\ resolved_count > 0
  /\ config.gravity_enabled

\* C11: at the end of every tick each particle's heading a lies in (-pi, pi],
\* -pi itself excluded, and after every call of update_rotation the
\* orientation theta lies in (-pi, pi].
C11_AnglesHalfOpen ==
  /\ (last.op = "update_simulation") =>
       \A k \in 1..Len(particles) : particles[k].a \in -3..4
  /\ (fn_call.op = "update_rotation") => fn_call.out.theta \in -3..4

\* C12: in every reachable state the box is wider and taller than one
\* particle's diameter: width > 2 * radius and height > 2 * radius, also
\* after consecutive compression ticks.
C12_BoxExceedsDiameter == width > 2 * r1 /\ height > 2 * r1

\* Twice the kinetic energy of the pair of the collision last applied, from
\* the velocity components in the collision's frame (scaled by 100): before
\* the exchange, and after it (v*v = normal_new^2 + tangential^2).
PairEnergyBefore ==
  LET e == fn_call.out.frame
  IN  fn_call.in[1].mass * (e.normal_velocity1 * e.normal_velocity1
                            + e.tangential_velocity1 * e.tangential_velocity1)
      + fn_call.in[2].mass * (e.normal_velocity2 * e.normal_velocity2
                              + e.tangential_velocity2 * e.tangential_velocity2)

PairEnergyAfter ==
  LET e == fn_call.out.frame
  IN  IF fn_call.out.resolved = 0 THEN PairEnergyBefore
      ELSE fn_call.in[1].mass * (e.normal_velocity1_new * e.normal_velocity1_new
                                 + e.tangential_velocity1 * e.tangential_velocity1)
           + fn_call.in[2].mass * (e.normal_velocity2_new * e.normal_velocity2_new
                                   + e.tangential_velocity2 * e.tangential_velocity2)

\* C13: with the system isolated and gravity off (the tick changes speeds only
\* in its collision step), the total kinetic energy stays within 1% of the
\* initial energy, for particles of equal mass and for a heavy first
\* particle: the collision step leaves the energy of a two-particle gas
\* within 1% of what it was.
C13_EnergyWithinOnePercent ==
  (fn_call.op = "collision") =>
    100 * Abs(PairEnergyAfter - PairEnergyBefore) <= PairEnergyBefore

\* C14: calculate_mean_free_path returns +inf whenever the density is zero
\* (no particles) or the cross-section is zero (radius 0) and a finite
\* positive value otherwise; calculate_collision_rate returns 0 when the mean
\* free path is 0 or +inf.
C14_MeanFreePathInfinite ==
  (fn_call.op = "mean_free_path") =>
    LET mfp == fn_call.out.mean_free_path
    IN  /\ (fn_call.in.nn = 0 \/ fn_call.in.r1 = 0) => mfp.inf
        /\ ~(fn_call.in.nn = 0 \/ fn_call.in.r1 = 0) =>
             (~mfp.inf /\ mfp.num > 0 /\ mfp.den > 0)
        /\ (mfp.inf \/ mfp.num = 0) => fn_call.out.collision_rate = 0

\* C15: the velocity-entropy, H-function and spatial-entropy estimators return
\* None when given fewer than 10 samples, and an aggregation tick in which
\* they do so (one that reaches them with fewer than 10 particles) runs to
\* its end without an error and appends nothing to Entropy, H_function or
\* SpatialEntropy.
C15_NoDataBelowTenSamples ==
  [][ ( /\ Ran("update_simulation")
        /\ last'.due
        /\ error' # "ZeroDivisionError"
        /\ Len(particles') < MinSamples )
      => /\ calculate_velocity_entropy(Velocities(particles')).none
         /\ calculate_h_function(Velocities(particles')).none
         /\ calculate_spatial_entropy(Positions(particles'), width', height').none
         /\ error' = None
         /\ last'.row
         /\ UNCHANGED entropyVars ]_vars

\* A row has been completed with fewer than 10 particles and the three
\* entropy series are still empty.
C15_Witness ==
  /\ last.op = "update_simulation"
  /\ last.row
  /\ Len(particles) < MinSamples
  /\ Len(Time_meas) > 0
  /\ Entropy = <<>> /\ H_function = <<>> /\ SpatialEntropy = <<>>

\* C16: a tick advances the orientation theta of every particle by omega*dt,
\* wrapped, when the molecule type is not monatomic and rotation is enabled,
\* and leaves theta unchanged when the molecule is monatomic or rotation is
\* disabled.
C16_TickRotates ==
  [][ (Ran("update_simulation") /\ counter' = counter + 1)
      => \A k \in 1..Len(particles) :
           particles'[k].theta = update_rotation(particles[k], time_sleep).theta ]_vars

\* The heading a after the reflections of the walls that fired: pi - a if an
\* odd number of the left and right walls did, then -a if an odd number of
\* the top and bottom walls did.
Reflected(a, sideways, vertical) ==
  LET b == IF sideways THEN 4 - a ELSE a
  IN  IF vertical THEN -b ELSE b

\* C17: a wall reflection of a particle with heading a, speed v and mass m
\* leaves the heading pi - a (left or right wall) or -a (top or bottom wall)
\* up to normalisation and the speed unchanged, and adds 2*m*v*|cos a|
\* (left, right) or 2*m*v*|sin a| (top, bottom) to the counter of the wall
\* the particle is at and nothing to a counter whose wall did not reflect it.
C17_WallReflectionLaw ==
  (fn_call.op = "wall") =>
    LET p   == fn_call.in.p
        out == fn_call.out
        px  == Abs(2 * p.mass * p.v * Cos8(p.a))
        py  == Abs(2 * p.mass * p.v * Sin8(p.a))
    IN  /\ out.p.v = p.v
        /\ out.left > 0 => (p.x <= p.radius /\ out.left = px)
        /\ out.right > 0 => (p.x >= fn_call.in.width - p.radius /\ out.right = px)
        /\ out.up > 0 => (p.y <= p.radius /\ out.up = py)
        /\ out.down > 0 => (p.y >= fn_call.in.height - p.radius /\ out.down = py)
        /\ (out.p.a - Reflected(p.a, (out.left > 0) # (out.right > 0),
                                (out.up > 0) # (out.down > 0))) % 8 = 0
        /\ out.p.a \in -4..4

\* The left wall alone has reflected a particle.
C17_Witness ==
  /\ fn_call.op = "wall"
  /\ fn_call.out.left > 0
  /\ fn_call.out.right = 0 /\ fn_call.out.up = 0 /\ fn_call.out.down = 0
  /\ fn_call.out.p.a # fn_call.in.p.a

\* C18: the wall handling is independent per axis: the top or bottom
\* reflection of a particle fires in a tick exactly when the particle is at
\* that wall and the vertical component of its velocity points at it,
\* whether or not a left or right reflection was applied to it earlier in
\* the tick; a particle in a corner moving toward both walls is reflected on
\* both axes.
C18_AxisIndependent ==
  (fn_call.op = "wall") =>
    LET p == fn_call.in.p
    IN  /\ (fn_call.out.up > 0) <=> (p.y <= p.radius /\ Sin8(p.a) < 0)
        /\ (fn_call.out.down > 0) <=>
             (p.y >= fn_call.in.height - p.radius /\ Sin8(p.a) > 0)

\* C19: resolving a collision conserves the pair's total linear momentum
\* m1*v1 + m2*v2, along the line of centres and across it, for equal and for
\* unequal masses (the tangential velocities are the ones the exchange keeps).
C19_MomentumConserved ==
  (fn_call.op = "collision" /\ fn_call.out.resolved = 1) =>
    LET e  == fn_call.out.frame
        mass1 == fn_call.in[1].mass
        mass2 == fn_call.in[2].mass
    IN  mass1 * e.normal_velocity1_new + mass2 * e.normal_velocity2_new
          = mass1 * e.normal_velocity1 + mass2 * e.normal_velocity2

\* The pair of the collision last applied is head-on: equal masses, equal
\* speeds, the first particle heading along the line of centres toward the
\* second and the second heading the opposite way.
HeadOn ==
  /\ fn_call.op = "collision"
  /\ fn_call.in[1].mass = fn_call.in[2].mass
  /\ fn_call.in[1].v = fn_call.in[2].v
  /\ (fn_call.in[1].a - fn_call.out.frame.collision_angle) % 8 = 0
  /\ (fn_call.in[2].a - fn_call.in[1].a) % 8 = 4

\* C20: two colliding particles of equal mass with equal and opposite
\* velocities along the line of centres each leave the resolution with the
\* negation of their velocity: the same speed and the heading turned by pi.
C20_HeadOnNegates ==
  HeadOn =>
    /\ fn_call.out.resolved = 1
    /\ \A k \in 1..2 :
         /\ fn_call.out.ps[k].v = fn_call.in[k].v
         /\ (fn_call.out.ps[k].a - fn_call.in[k].a) % 8 = 4
         /\ fn_call.out.ps[k].a \in -4..4

\* A head-on pair on a diagonal line of centres has been resolved.
C20_Witness ==
  /\ HeadOn
  /\ fn_call.out.resolved = 1
  /\ fn_call.in[2].x # fn_call.in[1].x
  /\ fn_call.in[2].y # fn_call.in[1].y

\* The collision last applied exchanged the velocities of its pair.
Resolved == fn_call.op = "collision" /\ fn_call.out.resolved = 1

\* The square of the pair's separation now and as predicted after
\* prediction_step, lengths scaled by 100.
Separation2(ps) ==
  10000 * ((ps[1].x - ps[2].x) * (ps[1].x - ps[2].x)
           + (ps[1].y - ps[2].y) * (ps[1].y - ps[2].y))

PredictedSeparation2(ps, cfg) ==
  LET x1_new == 100 * ps[1].x + ps[1].v * Cos8(ps[1].a) * cfg.prediction_step
      y1_new == 100 * ps[1].y + ps[1].v * Sin8(ps[1].a) * cfg.prediction_step
      x2_new == 100 * ps[2].x + ps[2].v * Cos8(ps[2].a) * cfg.prediction_step
      y2_new == 100 * ps[2].y + ps[2].v * Sin8(ps[2].a) * cfg.prediction_step
  IN  (x1_new - x2_new) * (x1_new - x2_new) + (y1_new - y2_new) * (y1_new - y2_new)

\* The resolved pair at the next tick and at the one after it, moved by its
\* own velocities only (no wall, gravity, mode step or third particle).
OneTickLater == MoveAll(fn_call.out.ps, BaseConfig, BaseConfig.time_step)

TwoTicksLater == MoveAll(OneTickLater, BaseConfig, BaseConfig.time_step)

\* C21: a pair is resolved only if its separation predicted after
\* prediction_step is strictly smaller than its current one; once resolved,
\* the pair fails that test at once and on the following ticks and is not
\* resolved again, in contact or not, while only its own motion acts on it.
C21_ResolvedOnlyWhenApproaching ==
  Resolved =>
    /\ PredictedSeparation2(fn_call.in, BaseConfig) < Separation2(fn_call.in)
    /\ PredictedSeparation2(fn_call.out.ps, BaseConfig) >= Separation2(fn_call.out.ps)
    /\ CollideAll(fn_call.out.ps, BaseConfig).resolved = 0
    /\ PredictedSeparation2(OneTickLater, BaseConfig) >= Separation2(OneTickLater)
    /\ CollideAll(OneTickLater, BaseConfig).resolved = 0
    /\ CollideAll(TwoTicksLater, BaseConfig).resolved = 0

\* A resolved pair is still within contact distance at the next tick.
C21_Witness ==
  /\ Resolved
  /\ InContact(OneTickLater[1], OneTickLater[2], BaseConfig)
  /\ CollideAll(OneTickLater, BaseConfig).contacts = 1

\* C22: the axis-aligned bounding check is only a broad-phase filter: for
\* every permitted distance_multiplier, overlap_threshold and radius it
\* rejects no pair whose centre distance is at most
\* 2*radius + overlap_threshold, so the pairs counted with the filter are
\* exactly the pairs that meet that criterion.
C22_BroadPhaseOnlyFilters ==
  (fn_call.op = "contact") =>
    /\ fn_call.out.touching => fn_call.out.broad_phase
    /\ fn_call.out.in_contact <=> fn_call.out.touching
    /\ (fn_call.out.contacts = 1) <=> fn_call.out.touching

\* The speeds the motion, wall and collision steps of a tick leave, before
\* the mode step.
SpeedsBeforeModeStep ==
  Velocities(CollideAll(WallAll(MoveAll(particles, config, time_sleep),
                                width, height).ps, config).ps)

\* C23: a tick never changes the height; it changes the width only when the
\* system is not isolated and the mode is expansion (by +expansion_rate) or
\* compression (by -compression_rate); in every other tick, and in every
\* tick of an isolated system, the width is unchanged and the heat/freeze
\* step changes no speed.
C23_TickFrame ==
  [][ Ran("update_simulation") =>
        /\ height' = height
        /\ (counter' = counter + 1 /\ ~config.isolated_system /\ mode = "expansion")
             => width' = width + config.expansion_rate
        /\ (counter' = counter + 1 /\ ~config.isolated_system /\ mode = "compression")
             => width' = width - config.compression_rate
        /\ (counter' = counter \/ config.isolated_system
              \/ mode \notin {"expansion", "compression"})
             => width' = width
        /\ (counter' = counter + 1
              /\ (config.isolated_system \/ mode \notin {"heat", "freeze"}))
             => Velocities(particles') = SpeedsBeforeModeStep ]_vars

\* A compression tick has narrowed the box and a tick in another mode has
\* then left it as it was.
C23_Witness ==
  /\ last.op = "update_simulation"
  /\ width = width0 - config.compression_rate
  /\ mode \notin {"expansion", "compression"}
  /\ counter >= 2

\* C24: while the simulation is stopped, a firing of update_simulation
\* changes nothing of the simulation (time, particles, counters, series) and
\* emits no data; stop_simulation and start_simulation change only the
\* running flag and the timer, so a start resumes from the state in which
\* the simulation was stopped.
C24_StoppedTickIsNoOp ==
  [][ /\ (Ran("update_simulation") /\ ~running)
        => /\ UNCHANGED <<configVars, simVars, mode, running, graphVars, error>>
           /\ ~simulation_timer'
      /\ Ran("stop_simulation")
        => /\ UNCHANGED <<configVars, simVars, mode, graphVars, error>>
           /\ ~running' /\ ~simulation_timer'
      /\ Ran("start_simulation")
        => /\ UNCHANGED <<configVars, simVars, mode, graphVars, error>>
           /\ running' /\ simulation_timer' ]_vars

\* The slot has fired in a simulation stopped after some ticks.
C24_Witness ==
  /\ last.op = "update_simulation"
  /\ ~running
  /\ counter > 0

\* C25: the MSD series receives a value only on aggregation ticks, one per
\* row, so it is as long as Time_meas after any sequence of ticks and resets.
C25_MsdTracksTime == Len(MSD) = Len(Time_meas)

\* C26: collision_count never decreases between resets and always equals
\* the number of collisions actually resolved (velocity exchanges performed)
\* since the last reset.
C26_CountsResolvedCollisions == collision_count = resolved_count

\* C27: whenever the isolated_system flag is set the mode is OFF, in every
\* state reachable through set_mode, toggle_isolated_system, the resets,
\* apply_config, the other toggles and the ticks.
C27_IsolatedImpliesOff == config.isolated_system => mode = "OFF"

\* The system was isolated after a compression had narrowed the box.
C27_Witness ==
  /\ last.op = "toggle_isolated_system"
  /\ config.isolated_system
  /\ width < width0
  /\ mode = "OFF"

\* C28: in every tick, the first one after creation included (headings still
\* in [0, 2*pi)), a particle is reflected off a wall if and only if it is at
\* or beyond that wall and its velocity has a strictly positive component
\* directed into it.
C28_ReflectedIffMovingIntoWall ==
  (fn_call.op = "wall") =>
    LET p == fn_call.in.p
    IN  /\ (fn_call.out.left > 0) <=> (p.x <= p.radius /\ Cos8(p.a) < 0)
        /\ (fn_call.out.right > 0) <=>
             (p.x >= fn_call.in.width - p.radius /\ Cos8(p.a) > 0)
        /\ (fn_call.out.up > 0) <=> (p.y <= p.radius /\ Sin8(p.a) < 0)
        /\ (fn_call.out.down > 0) <=>
             (p.y >= fn_call.in.height - p.radius /\ Sin8(p.a) > 0)

\* C29: a pair is declared in contact only when the distance of the centres
\* is at most the sum of the two particles' own radii plus
\* overlap_threshold, the pairs with the enlarged first particle of Brownian
\* mode included.
C29_ContactWithinRadii ==
  (fn_call.op = "contact" /\ fn_call.out.contacts = 1) =>
    LET p1    == fn_call.in.pair[1]
        p2    == fn_call.in.pair[2]
        reach == p1.radius + p2.radius + fn_call.in.overlap_threshold
    IN  Dist2(p1, p2) <= reach * reach

\* C30: reset_simulation, and with it toggle_brownian_mode,
\* toggle_corner_start, apply_config and the graph window's clear action,
\* leaves the simulation running with the tick timer started, also when
\* stop_simulation had stopped it before the call.
C30_ResetRestarts ==
  [][ (last'.op \in Resetters /\ cmds' = cmds + 1)
        => (running' /\ simulation_timer') ]_vars

\* A reset has been issued as the second command (after a stop_simulation,
\* a set_mode or a toggle) and the simulation is running from time zero.
C30_Witness ==
  /\ last.op \in Resetters
  /\ cmds = 2
  /\ running /\ simulation_timer
  /\ counter = 0

====
